---- MODULE Spec2Model ----
(***************************************************************************)
(* neverball-checker: the asset checker (index.js) driven by its command   *)
(* line front end (cli.js).                                                *)
(*                                                                         *)
(* A Neverball path is a sequence of tokens (<<"a", ".sol">> is "a.sol"),  *)
(* so that prefixing a directory, appending an extension and replacing a   *)
(* trailing ".sol" are computed, not assumed.  The empty sequence is the   *)
(* empty string; it also stands for null / undefined where the code tests  *)
(* a value for truthiness only.                                            *)
(***************************************************************************)
EXTENDS Integers, Sequences, FiniteSets, TLC

VARIABLES
    fs,                   \* the file system: physical path -> content
    addonDir,             \* path.dirname(process.argv[3])
    createZip,            \* process.argv[4] === '--zip'
    pc,                   \* position of the run
    foundAddonFilenames,  \* Map path -> addon system path (insertion order)
    foundBaseFilenames,   \* Map path -> base system path
    foundBaseOverrides,   \* Set of addon system paths that shadow a base file
    probes,               \* fs.existsSync calls made so far, per physical path
    resolved,             \* getSystemFile calls made so far: path and result
    extracted,            \* getAssetsFromSolFile calls made so far, per level
    decoded,              \* levels getAssetsFromSolFile has decoded so far
    stack,                \* activations of getAssetsRecursively
    assets,               \* the bundle returned by getAssetsRecursivelyFromSetFile
    idx,                  \* position of the running loop of checkAssets / main
    foundAssets,          \* checkAssets: Set of "type:path"
    missingAssets,        \* checkAssets: Map path -> asset (insertion order)
    objAssets,            \* checkAssets: Map path -> asset of the models
    stdout,               \* lines written by console.log
    archive,              \* entries handed to archive.file
    exitCode              \* process exit code, -1 while running

inputVars == <<fs, addonDir, createZip>>
resolverVars ==
    <<foundAddonFilenames, foundBaseFilenames, foundBaseOverrides, probes, resolved>>
walkVars == <<extracted, decoded, stack, assets>>
checkVars == <<foundAssets, missingAssets, objAssets>>
mainVars == <<stdout, archive, exitCode>>
vars == <<inputVars, pc, resolverVars, walkVars, idx, checkVars, mainVars>>

-----------------------------------------------------------------------------
(* Bounds of the model *)

\* Depth of getAssetsRecursively activations the call stack has room for.
StackLimit == 5

\* Most level lines of a generated set file.
MaxSetLevels == 2

-----------------------------------------------------------------------------
(* Paths *)

Null == <<>>

\* the type of an asset that has none
NoType == "null"

baseDir == <<"data">>
setFile == <<"set", ".txt">>

\* dir + '/' + path
Join(dir, path) == dir \o <<"/">> \o path

Last(s) == s[Len(s)]
Front(s) == SubSeq(s, 1, Len(s) - 1)

\* ReplaceSolMap appending the extension instead of replacing it
ReplaceSolMapAppended(path) ==
    IF Len(path) > 0 /\ Last(path) = ".sol" THEN path \o <<".map">> ELSE path

\* ReplaceSolMap replacing nothing
ReplaceSolMapUnchanged(path) == path

\* asset.path.replace(/\.sol$/, '.map')
ReplaceSolMap(path) ==
    IF Len(path) > 0 /\ Last(path) = ".sol" THEN Front(path) \o <<".map">> ELSE path

\* filename.replace(/^\.\//, '')
StripDotSlash(filename) ==
    IF Len(filename) >= 2 /\ filename[1] = "." /\ filename[2] = "/"
    THEN SubSeq(filename, 3, Len(filename))
    ELSE filename

-----------------------------------------------------------------------------
(* Map: a sequence of entries with distinct .path, in insertion order *)

createAssetList == <<>>

MapHas(list, path) == \E k \in 1..Len(list) : list[k].path = path

MapGet(list, path) == list[CHOOSE k \in 1..Len(list) : list[k].path = path]

\* MapSet for a list kept as an array: list.push(entry)
MapSetAppending(list, entry) == Append(list, entry)

\* Map.prototype.set: an existing key keeps its position and takes the new value.
MapSet(list, entry) ==
    IF MapHas(list, entry.path)
    THEN [k \in 1..Len(list) |-> IF list[k].path = entry.path THEN entry ELSE list[k]]
    ELSE Append(list, entry)

\* MapMerge keeping both entries of a key: [...a, ...b]
MapMergeAppending(a, b) == a \o b

RECURSIVE MapMerge(_, _)
\* new Map([...a, ...b])
MapMerge(a, b) ==
    IF b = <<>> THEN a ELSE MapMerge(MapSet(a, Head(b)), Tail(b))

MapKeys(list) == {list[k].path : k \in 1..Len(list)}

addAssetToList(list, path, parent, type) ==
    MapSet(list, [path |-> path, parent |-> parent, type |-> type])

EmptyBundle ==
    [imageAssets |-> createAssetList, audioAssets |-> createAssetList,
     solAssets |-> createAssetList, materialAssets |-> createAssetList]

-----------------------------------------------------------------------------
(* File contents.  Solid() decodes content of kind "sol" and throws on any   *)
(* other; a "map" is the text of a .map file, given as the values of its     *)
(* "model" keys in order; a "set" is the text of a set file, its line ends   *)
(* being the tokens "\n" and "\r"; "data" is any other file.                 *)

NullContent == [kind |-> "null"]

SolContent(shot, song, grad, back, mtrls) ==
    [kind |-> "sol",
     dicts |-> [shot |-> shot, song |-> song, grad |-> grad, back |-> back],
     mtrls |-> [k \in 1..Len(mtrls) |-> [f |-> mtrls[k]]]]

MapContent(models) == [kind |-> "map", models |-> models]

SetContent(text) == [kind |-> "set", text |-> text]

DataContent == [kind |-> "data"]

\* Solid(content) returns rather than throws
Decodes(content) == content.kind = "sol"

\* Array.from(mapData.toString().matchAll(/"model" +"([^"]+)"/g)).map(m => m[1])
ModelMatches(content) == IF content.kind = "map" THEN content.models ELSE <<>>

RECURSIVE SplitTextAtLF(_, _)
\* SplitText with "\n" alone as the line end: text.split(/\n/)
SplitTextAtLF(text, line) ==
    IF text = <<>> THEN <<line>>
    ELSE IF Head(text) = "\n"
    THEN <<line>> \o SplitTextAtLF(Tail(text), <<>>)
    ELSE SplitTextAtLF(Tail(text), Append(line, Head(text)))

RECURSIVE SplitText(_, _)
\* text.split(/\r?\n/), line being the line begun so far
SplitText(text, line) ==
    IF text = <<>> THEN <<line>>
    ELSE IF Head(text) = "\n"
    THEN <<line>> \o SplitText(Tail(text), <<>>)
    ELSE IF Head(text) = "\r" /\ Len(text) >= 2 /\ text[2] = "\n"
    THEN <<line>> \o SplitText(Tail(Tail(text)), <<>>)
    ELSE SplitText(Tail(text), Append(line, Head(text)))

\* content.toString('utf8').split(/\r?\n/)
SplitLines(content) ==
    IF content.kind = "set" THEN SplitText(content.text, <<>>) ELSE <<>>

-----------------------------------------------------------------------------
(* cli.js: the overlay resolver.  R is the resolver's bookkeeping.           *)

Resolver ==
    [foundAddonFilenames |-> foundAddonFilenames,
     foundBaseFilenames |-> foundBaseFilenames,
     foundBaseOverrides |-> foundBaseOverrides,
     probes |-> probes,
     resolved |-> resolved]

Bump(count, key) ==
    IF key \in DOMAIN count THEN [count EXCEPT ![key] = @ + 1] ELSE count @@ (key :> 1)

\* fs.existsSync(file), counted
existsSync(file) == file \in DOMAIN fs

Probed(R, file) == [R EXCEPT !.probes = Bump(@, file)]

Returned(R, path, file) ==
    [R |-> [R EXCEPT !.resolved = @ \cup {[path |-> path, file |-> file]}], file |-> file]

\* getSystemFile recording the base file of a path also when it returns the
\* addon file
getSystemFileBothBooks(R, path) ==
    LET addonPath == Join(addonDir, path)
        basePath == Join(baseDir, path)
        R2 == Probed(Probed(R, addonPath), basePath)
        R3 == IF existsSync(basePath)
              THEN [R2 EXCEPT !.foundBaseFilenames =
                                  MapSet(@, [path |-> path, file |-> basePath])]
              ELSE R2
    IN  IF existsSync(addonPath)
        THEN Returned([R3 EXCEPT !.foundAddonFilenames =
                                     MapSet(@, [path |-> path, file |-> addonPath]),
                                 !.foundBaseOverrides =
                                     IF existsSync(basePath) THEN @ \cup {addonPath} ELSE @],
                      path, addonPath)
        ELSE IF existsSync(basePath) THEN Returned(R3, path, basePath)
             ELSE Returned(R2, path, Null)

\* getSystemFile marking every addon file shadowed, in the base directory or not
getSystemFileMarkAll(R, path) ==
    LET addonPath == Join(addonDir, path)
        basePath == Join(baseDir, path)
        R2 == Probed(Probed(R, addonPath), basePath)
    IN  IF existsSync(addonPath)
        THEN Returned([R2 EXCEPT !.foundAddonFilenames =
                                     MapSet(@, [path |-> path, file |-> addonPath]),
                                 !.foundBaseOverrides = @ \cup {addonPath}],
                      path, addonPath)
        ELSE IF existsSync(basePath)
             THEN Returned([R2 EXCEPT !.foundBaseFilenames =
                               MapSet(@, [path |-> path, file |-> basePath])],
                           path, basePath)
             ELSE Returned(R2, path, Null)

getSystemFile(R, path) ==
    LET addonPath == Join(addonDir, path)
        basePath == Join(baseDir, path)
        R1 == Probed(R, addonPath)
        R2 == Probed(R1, basePath)
    IN  IF existsSync(addonPath)
        THEN LET R3 == [R2 EXCEPT !.foundAddonFilenames =
                            MapSet(@, [path |-> path, file |-> addonPath])]
             IN  Returned(IF existsSync(basePath)
                          THEN [R3 EXCEPT !.foundBaseOverrides = @ \cup {addonPath}]
                          ELSE R3,
                          path, addonPath)
        ELSE IF existsSync(basePath)
             THEN Returned([R2 EXCEPT !.foundBaseFilenames =
                               MapSet(@, [path |-> path, file |-> basePath])],
                           path, basePath)
             ELSE Returned(R2, path, Null)

\* fs.readFileSync(null) throws, and readAsset returns null
readAsset(R, path) ==
    LET g == getSystemFile(R, path)
    IN  [R |-> g.R,
         content |-> IF g.file = Null THEN NullContent ELSE fs[g.file]]

assetExists(R, path) ==
    LET g == getSystemFile(R, path)
    IN  [R |-> g.R, exists |-> g.file # Null]

-----------------------------------------------------------------------------
(* index.js: the extractors *)

RECURSIVE AddSols(_, _, _)
AddSols(list, sols, parent) ==
    IF sols = <<>> THEN list
    ELSE AddSols(IF Head(sols) # Null
                 THEN addAssetToList(list, Head(sols), parent, NoType)
                 ELSE list,
                 Tail(sols), parent)

getAssetsFromSetFile(R, asset) ==
    LET rd == readAsset(R, asset.path)
        lines == SplitLines(rd.content)
        shot == IF Len(lines) >= 4 THEN lines[4] ELSE Null
        sols == SubSeq(lines, 6, Len(lines))
    IN  [R |-> rd.R,
         bundle |->
            [imageAssets |-> IF shot # Null
                             THEN addAssetToList(createAssetList, shot, asset.path, NoType)
                             ELSE createAssetList,
             audioAssets |-> createAssetList,
             solAssets |-> AddSols(createAssetList, sols, asset.path),
             materialAssets |-> createAssetList]]

RECURSIVE AddMtrlsAnyCase(_, _, _)
\* AddMtrls comparing the names with no regard to case
AddMtrlsAnyCase(list, mtrls, parent) ==
    IF mtrls = <<>> THEN list
    ELSE AddMtrlsAnyCase(
             IF Head(mtrls).f \notin {<<"NULL">>, <<"null">>, <<"default">>, <<"Default">>}
             THEN addAssetToList(list, Head(mtrls).f, parent, NoType)
             ELSE list,
             Tail(mtrls), parent)

RECURSIVE AddMtrls(_, _, _)
AddMtrls(list, mtrls, parent) ==
    IF mtrls = <<>> THEN list
    ELSE AddMtrls(IF ~(Head(mtrls).f = <<"NULL">> \/ Head(mtrls).f = <<"default">>)
                  THEN addAssetToList(list, Head(mtrls).f, parent, NoType)
                  ELSE list,
                  Tail(mtrls), parent)

getAssetsFromSolFile(R, asset) ==
    LET rd == readAsset(R, asset.path)
        sol == rd.content
        withShot == IF sol.dicts.shot # Null
                    THEN addAssetToList(createAssetList, sol.dicts.shot, asset.path, NoType)
                    ELSE createAssetList
        withGrad == IF sol.dicts.grad # Null
                    THEN addAssetToList(withShot, sol.dicts.grad, asset.path, NoType)
                    ELSE withShot
    IN  [R |-> rd.R,
         decoded |-> Decodes(rd.content),
         bundle |->
            IF ~Decodes(rd.content) THEN EmptyBundle
            ELSE [imageAssets |-> withGrad,
                  audioAssets |-> IF sol.dicts.song # Null
                                  THEN addAssetToList(createAssetList, sol.dicts.song,
                                                      asset.path, NoType)
                                  ELSE createAssetList,
                  solAssets |-> IF sol.dicts.back # Null
                                THEN addAssetToList(createAssetList, sol.dicts.back,
                                                    asset.path, NoType)
                                ELSE createAssetList,
                  materialAssets |-> AddMtrls(createAssetList, sol.mtrls, asset.path)]]

\* MergeBundles with the union of the levels forgotten
MergeBundlesKeepSols(a, b) ==
    [imageAssets |-> MapMerge(a.imageAssets, b.imageAssets),
     audioAssets |-> MapMerge(a.audioAssets, b.audioAssets),
     solAssets |-> a.solAssets,
     materialAssets |-> MapMerge(a.materialAssets, b.materialAssets)]

\* the four unions of one round of getAssetsRecursively's loop
MergeBundles(a, b) ==
    [imageAssets |-> MapMerge(a.imageAssets, b.imageAssets),
     audioAssets |-> MapMerge(a.audioAssets, b.audioAssets),
     solAssets |-> MapMerge(a.solAssets, b.solAssets),
     materialAssets |-> MapMerge(a.materialAssets, b.materialAssets)]

RECURSIVE FirstExisting(_, _)
\* the candidate loops of findMaterialPath and findMaterialImagePath
FirstExisting(R, candidates) ==
    IF candidates = <<>> THEN [R |-> R, path |-> Null]
    ELSE LET e == assetExists(R, Head(candidates))
         IN  IF e.exists THEN [R |-> e.R, path |-> Head(candidates)]
             ELSE FirstExisting(e.R, Tail(candidates))

findMaterialPath(R, mtrl) ==
    FirstExisting(R, << <<"textures/">> \o mtrl, mtrl >>)

\* findMaterialImagePath trying .jpg before .png
findMaterialImagePathJpgFirst(R, mtrl) ==
    FirstExisting(R, << <<"textures/">> \o mtrl \o <<".jpg">>,
                        <<"textures/">> \o mtrl \o <<".png">>,
                        mtrl \o <<".jpg">>,
                        mtrl \o <<".png">> >>)

findMaterialImagePath(R, mtrl) ==
    FirstExisting(R, << <<"textures/">> \o mtrl \o <<".png">>,
                        <<"textures/">> \o mtrl \o <<".jpg">>,
                        mtrl \o <<".png">>,
                        mtrl \o <<".jpg">> >>)

-----------------------------------------------------------------------------
(* The run: cli.js calls checker.check(setFile), then reports or packages.   *)

SetResolver(R) ==
    /\ foundAddonFilenames' = R.foundAddonFilenames
    /\ foundBaseFilenames' = R.foundBaseFilenames
    /\ foundBaseOverrides' = R.foundBaseOverrides
    /\ probes' = R.probes
    /\ resolved' = R.resolved

\* an activation of getAssetsRecursively(mainAssets), before round k of its loop
Frame(mainAssets) == [mainAssets |-> mainAssets, combined |-> mainAssets, k |-> 1]

Top == stack[Len(stack)]

Pending == Top.k <= Len(Top.mainAssets.solAssets)

Phases == <<"images", "audios", "sols", "materials", "objs">>

PhaseLen(p, A, objs) ==
    CASE p = 1 -> Len(A.imageAssets)
      [] p = 2 -> Len(A.audioAssets)
      [] p = 3 -> Len(A.solAssets)
      [] p = 4 -> Len(A.materialAssets)
      [] p = 5 -> Len(objs)

RECURSIVE Enter(_, _, _)
\* the first round of the loops of checkAssets from loop p on, or its return
Enter(p, A, objs) ==
    IF p > Len(Phases) THEN [pc |-> "checked", idx |-> 1]
    ELSE IF PhaseLen(p, A, objs) > 0 THEN [pc |-> Phases[p], idx |-> 1]
    ELSE Enter(p + 1, A, objs)

\* what follows round i of loop p
After(p, i, A, objs) ==
    IF i < PhaseLen(p, A, objs) THEN [pc |-> Phases[p], idx |-> i + 1]
    ELSE Enter(p + 1, A, objs)

Goto(at) == pc' = at.pc /\ idx' = at.idx

\* the string `${type}:${path}`
Found(type, path) == [type |-> type, path |-> path]

\* check(setFile) up to the first activation of getAssetsRecursively
Check ==
    /\ pc = "start"
    /\ LET r == getAssetsFromSetFile(Resolver, [path |-> setFile])
       IN  /\ SetResolver(r.R)
           /\ stack' = <<Frame(r.bundle)>>
    /\ pc' = "walk"
    /\ UNCHANGED <<inputVars, extracted, decoded, assets, idx, checkVars, mainVars>>

\* Descend with no try around the reading and decoding of the level
DescendPropagating ==
    /\ pc = "walk" /\ Pending /\ Len(stack) < StackLimit
    /\ LET asset == Top.mainAssets.solAssets[Top.k]
           r == getAssetsFromSolFile(Resolver, asset)
       IN  /\ SetResolver(r.R)
           /\ extracted' = Bump(extracted, asset.path)
           /\ decoded' = IF r.decoded THEN decoded \cup {asset.path} ELSE decoded
           /\ IF Decodes(readAsset(Resolver, asset.path).content)
              THEN /\ stack' = Append(stack, Frame(r.bundle))
                   /\ UNCHANGED <<pc, exitCode>>
              ELSE /\ pc' = "crashed"
                   /\ exitCode' = 1
                   /\ UNCHANGED stack
    /\ UNCHANGED <<inputVars, assets, idx, checkVars, stdout, archive>>

\* getAssetsRecursively(getAssetsFromSolFile(asset)): the call
Descend ==
    /\ pc = "walk" /\ Pending /\ Len(stack) < StackLimit
    /\ LET asset == Top.mainAssets.solAssets[Top.k]
           r == getAssetsFromSolFile(Resolver, asset)
       IN  /\ SetResolver(r.R)
           /\ extracted' = Bump(extracted, asset.path)
           /\ decoded' = IF r.decoded THEN decoded \cup {asset.path} ELSE decoded
           /\ stack' = Append(stack, Frame(r.bundle))
    /\ UNCHANGED <<inputVars, pc, assets, idx, checkVars, mainVars>>

\* getAssetsRecursively returns; its caller unions the result into its own
Return ==
    /\ pc = "walk" /\ ~Pending
    /\ IF Len(stack) = 1
       THEN /\ assets' = Top.combined
            /\ stack' = <<>>
            /\ Goto(Enter(1, Top.combined, objAssets))
       ELSE /\ stack' = Front(Front(stack)) \o
                         <<[stack[Len(stack) - 1] EXCEPT
                              !.combined = MergeBundles(@, Top.combined),
                              !.k = @ + 1]>>
            /\ UNCHANGED <<assets, pc, idx>>
    /\ UNCHANGED <<inputVars, resolverVars, extracted, decoded, checkVars, mainVars>>

\* The call stack is exhausted inside the try block of getAssetsFromSolFile:
\* the RangeError is swallowed by its catch, the bundle is empty.
StackOverflowCaught ==
    /\ pc = "walk" /\ Pending /\ Len(stack) = StackLimit
    /\ extracted' = Bump(extracted, Top.mainAssets.solAssets[Top.k].path)
    /\ UNCHANGED decoded
    /\ stack' = [stack EXCEPT ![Len(stack)].k = @ + 1]
    /\ UNCHANGED <<inputVars, pc, resolverVars, assets, idx, checkVars, mainVars>>

\* The call stack is exhausted outside any try block: the run dies of the
\* uncaught RangeError.
StackOverflowUncaught ==
    /\ pc = "walk" /\ Pending /\ Len(stack) = StackLimit
    /\ pc' = "crashed"
    /\ exitCode' = 1
    /\ UNCHANGED <<inputVars, resolverVars, walkVars, idx, checkVars, stdout, archive>>

CheckExists(p, type) ==
    LET list == IF p = 1 THEN assets.imageAssets
                ELSE IF p = 2 THEN assets.audioAssets ELSE objAssets
        asset == list[idx]
        e == assetExists(Resolver, asset.path)
    IN  /\ SetResolver(e.R)
        /\ IF ~e.exists
           THEN /\ missingAssets' = addAssetToList(missingAssets, asset.path,
                                                   asset.parent, type)
                /\ UNCHANGED foundAssets
           ELSE /\ foundAssets' = foundAssets \cup {Found(type, asset.path)}
                /\ UNCHANGED missingAssets
        /\ Goto(After(p, idx, assets, objAssets))
        /\ UNCHANGED <<inputVars, walkVars, objAssets, mainVars>>

CheckImage == pc = "images" /\ CheckExists(1, "image")

CheckAudio == pc = "audios" /\ CheckExists(2, "audio")

CheckObj == pc = "objs" /\ CheckExists(5, "obj")

\* CheckSol taking a level for found when its file can be read, decoded or not
CheckSolExistsOnly ==
    /\ pc = "sols"
    /\ LET asset == assets.solAssets[idx]
           rd == readAsset(Resolver, asset.path)
           solFound == rd.content # NullContent
           missing1 == IF solFound THEN missingAssets
                       ELSE addAssetToList(missingAssets, asset.path, asset.parent, "sol")
           mapPath == ReplaceSolMap(asset.path)
           md == readAsset(rd.R, mapPath)
           mapFound == md.content # NullContent
           matches == ModelMatches(md.content)
           mapObjs == MapMerge(<<>>, [k \in 1..Len(matches) |->
                                        [path |-> matches[k], parent |-> mapPath]])
           objs == IF mapFound THEN MapMerge(objAssets, mapObjs) ELSE objAssets
       IN  /\ SetResolver(md.R)
           /\ missingAssets' = IF mapFound THEN missing1
                               ELSE addAssetToList(missing1, asset.path, asset.parent, "map")
           /\ foundAssets' = foundAssets
                             \cup (IF solFound THEN {Found("sol", asset.path)} ELSE {})
                             \cup (IF mapFound THEN {Found("map", mapPath)} ELSE {})
           /\ objAssets' = objs
           /\ Goto(After(3, idx, assets, objs))
    /\ UNCHANGED <<inputVars, walkVars, mainVars>>

CheckSol ==
    /\ pc = "sols"
    /\ LET asset == assets.solAssets[idx]
           rd == readAsset(Resolver, asset.path)
           solFound == Decodes(rd.content)
           missing1 == IF solFound THEN missingAssets
                       ELSE addAssetToList(missingAssets, asset.path, asset.parent, "sol")
           mapPath == ReplaceSolMap(asset.path)
           md == readAsset(rd.R, mapPath)
           mapFound == md.content # NullContent
           matches == ModelMatches(md.content)
           mapObjs == MapMerge(<<>>, [k \in 1..Len(matches) |->
                                        [path |-> matches[k], parent |-> mapPath]])
           objs == IF mapFound THEN MapMerge(objAssets, mapObjs) ELSE objAssets
       IN  /\ SetResolver(md.R)
           /\ missingAssets' = IF mapFound THEN missing1
                               ELSE addAssetToList(missing1, asset.path, asset.parent, "map")
           /\ foundAssets' = foundAssets
                             \cup (IF solFound THEN {Found("sol", asset.path)} ELSE {})
                             \cup (IF mapFound THEN {Found("map", mapPath)} ELSE {})
           /\ objAssets' = objs
           /\ Goto(After(3, idx, assets, objs))
    /\ UNCHANGED <<inputVars, walkVars, mainVars>>

CheckMaterial ==
    /\ pc = "materials"
    /\ LET asset == assets.materialAssets[idx]
           m == findMaterialPath(Resolver, asset.path)
           missing1 == IF m.path = Null
                       THEN addAssetToList(missingAssets, asset.path, asset.parent,
                                           "material")
                       ELSE missingAssets
           i == findMaterialImagePath(m.R, asset.path)
       IN  /\ SetResolver(i.R)
           /\ missingAssets' = IF i.path = Null
                               THEN addAssetToList(missing1, asset.path, asset.parent,
                                                   "material-image")
                               ELSE missing1
           /\ foundAssets' = foundAssets
                             \cup (IF m.path = Null THEN {}
                                   ELSE {Found("material", asset.path)})
                             \cup (IF i.path = Null THEN {}
                                   ELSE {Found("material-image", i.path)})
    /\ Goto(After(4, idx, assets, objAssets))
    /\ UNCHANGED <<inputVars, walkVars, objAssets, mainVars>>

\* 'not-found:' + asset.type + ':' + asset.path + ':' + (parent ? parent.path : '_')
NotFoundLine(asset) ==
    <<"not-found:", asset.type, ":">> \o asset.path \o <<":">>
        \o (IF asset.parent # Null THEN asset.parent ELSE <<"_">>)

ReportMissing ==
    /\ pc = "checked" /\ Len(missingAssets) > 0
    /\ stdout' = stdout \o [k \in 1..Len(missingAssets) |-> NotFoundLine(missingAssets[k])]
    /\ exitCode' = 1
    /\ pc' = "exited"
    /\ UNCHANGED <<inputVars, resolverVars, walkVars, idx, checkVars, archive>>

CreateArchive ==
    /\ pc = "checked" /\ Len(missingAssets) = 0
    /\ archive' = [archive EXCEPT !.created = createZip]
    /\ pc' = "package"
    /\ idx' = 1
    /\ UNCHANGED <<inputVars, resolverVars, walkVars, checkVars, stdout, exitCode>>

\* PackageFile with the test for shadowed files the other way round
PackageFileShadowedOnly ==
    /\ pc = "package" /\ idx <= Len(foundAddonFilenames)
    /\ LET filename == foundAddonFilenames[idx].file
           compatFilename == StripDotSlash(filename)
       IN  IF filename \in foundBaseOverrides
           THEN /\ stdout' = Append(stdout, filename)
                /\ archive' = IF archive.created
                              THEN [archive EXCEPT !.entries = Append(@,
                                       [source |-> Join(addonDir, compatFilename),
                                        name |-> compatFilename])]
                              ELSE archive
           ELSE UNCHANGED <<stdout, archive>>
    /\ idx' = idx + 1
    /\ UNCHANGED <<inputVars, pc, resolverVars, walkVars, checkVars, exitCode>>

\* PackageFile without the test for shadowed files
PackageFileUnfiltered ==
    /\ pc = "package" /\ idx <= Len(foundAddonFilenames)
    /\ stdout' = Append(stdout, foundAddonFilenames[idx].file)
    /\ idx' = idx + 1
    /\ UNCHANGED <<inputVars, pc, resolverVars, walkVars, checkVars, archive, exitCode>>

\* one round of the loop over foundAddonFilenames.values()
PackageFile ==
    /\ pc = "package" /\ idx <= Len(foundAddonFilenames)
    /\ LET filename == foundAddonFilenames[idx].file
           compatFilename == StripDotSlash(filename)
       IN  IF filename \notin foundBaseOverrides
           THEN /\ stdout' = Append(stdout, filename)
                /\ archive' = IF archive.created
                              THEN [archive EXCEPT !.entries = Append(@,
                                       [source |-> Join(addonDir, compatFilename),
                                        name |-> compatFilename])]
                              ELSE archive
           ELSE UNCHANGED <<stdout, archive>>
    /\ idx' = idx + 1
    /\ UNCHANGED <<inputVars, pc, resolverVars, walkVars, checkVars, exitCode>>

Finalize ==
    /\ pc = "package" /\ idx > Len(foundAddonFilenames)
    /\ archive' = IF archive.created THEN [archive EXCEPT !.finalized = TRUE] ELSE archive
    /\ exitCode' = 0
    /\ pc' = "exited"
    /\ UNCHANGED <<inputVars, resolverVars, walkVars, idx, checkVars, stdout>>

Next ==
    \/ Check
    \/ Descend
    \/ Return
    \/ StackOverflowCaught
    \/ StackOverflowUncaught
    \/ CheckImage
    \/ CheckAudio
    \/ CheckSol
    \/ CheckMaterial
    \/ CheckObj
    \/ ReportMissing
    \/ CreateArchive
    \/ PackageFile
    \/ Finalize

-----------------------------------------------------------------------------
(* The inputs: the two data directories and the command line.                *)

LA == <<"a", ".sol">>
LB == <<"b", ".sol">>
LC == <<"c">>
Levels == {LA, LB, LC}

MapA == <<"a", ".map">>
MapB == <<"b", ".map">>

Shot == <<"shot", ".jpg">>
Grad == <<"grad", ".png">>
Tune == <<"tune", ".ogg">>

Brick == <<"brick">>
BrickPng == <<"textures/", "brick", ".png">>
BrickFiles ==
    {<<"textures/", "brick">>, <<"brick">>,
     <<"textures/", "brick", ".png">>, <<"textures/", "brick", ".jpg">>,
     <<"brick", ".png">>, <<"brick", ".jpg">>}

Ball == <<"ball", ".obj">>
Cone == <<"cone", ".obj">>

\* where a file is: in neither directory, in one, or in both
Places == {"absent", "addon", "base", "both"}

InAddon(place) == place \in {"addon", "both"}
InBase(place) == place \in {"base", "both"}

\* lines 0..4 of a set file, then its level lines
SetLines(shot, levels) == << <<"t">>, <<"u">>, <<"v">>, shot, <<>> >> \o levels

LF == <<"\n">>
CRLF == <<"\r", "\n">>

RECURSIVE JoinLines(_, _, _)
\* the text of the lines, line k (from first on) being ended by eol[k] unless
\* it is the last
JoinLines(lines, eol, first) ==
    IF lines = <<>> THEN <<>>
    ELSE IF Len(lines) = 1 THEN Head(lines)
    ELSE Head(lines) \o eol[first] \o JoinLines(Tail(lines), eol, first + 1)

\* how the lines of a text end: all the same way, or every other line each way
EolStyles ==
    {[k \in 1..8 |-> LF], [k \in 1..8 |-> CRLF],
     [k \in 1..8 |-> IF k % 2 = 0 THEN LF ELSE CRLF]}

SetText(shot, levels) == JoinLines(SetLines(shot, levels), [k \in 1..8 |-> LF], 1)

\* The file system holding, for each path of the table, the content the
\* table gives it, in the directories its place names.
FileSystem(dir, place, table) ==
    LET paths == {p \in DOMAIN table : place[p] # "absent"}
        files == {Join(dir, p) : p \in {q \in paths : InAddon(place[q])}}
                 \cup {Join(baseDir, p) : p \in {q \in paths : InBase(place[q])}}
    IN  [f \in files |->
            table[CHOOSE p \in paths : f = Join(dir, p) \/ f = Join(baseDir, p)]]

\* The state when cli.js has checked its arguments, which it does not survive
\* unless the set file is in the addon directory.
Start(dir, zip, place, table) ==
    /\ place[setFile] \in {"addon", "both"}
    /\ fs = FileSystem(dir, place, table)
    /\ addonDir = dir
    /\ createZip = zip
    /\ pc = "start"
    /\ foundAddonFilenames = <<[path |-> setFile, file |-> Join(dir, setFile)]>>
    /\ foundBaseFilenames = <<>>
    /\ foundBaseOverrides = {}
    /\ probes = <<>>
    /\ resolved = {}
    /\ extracted = <<>>
    /\ decoded = {}
    /\ stack = <<>>
    /\ assets = EmptyBundle
    /\ idx = 1
    /\ foundAssets = {}
    /\ missingAssets = createAssetList
    /\ objAssets = createAssetList
    /\ stdout = <<>>
    /\ archive = [created |-> FALSE, entries |-> <<>>, finalized |-> FALSE]
    /\ exitCode = -1

RECURSIVE SeqsUpTo(_, _)
\* the sequences over S of length at most n
SeqsUpTo(S, n) ==
    IF n = 0 THEN {<<>>}
    ELSE LET shorter == SeqsUpTo(S, n - 1)
         IN  shorter \cup {Append(s, x) : s \in shorter, x \in S}

\* Level sets with every background chain, cyclic ones included, and at most
\* one level that is absent or does not decode.
InitGraph ==
    \E levels \in SeqsUpTo(Levels, MaxSetLevels) \ {<<>>},
       backA \in Levels \cup {Null}, backB \in Levels \cup {Null},
       backC \in {Null, LA},
       broken \in {<<Null, "ok">>} \cup (Levels \X {"absent", "bad"}) :
        LET status(l) == IF broken[1] = l THEN broken[2] ELSE "ok"
            sol(l, back) == IF status(l) = "bad" THEN DataContent
                            ELSE SolContent(<<l[1], ".jpg">>, Null, Null, back, <<>>)
            table == (setFile :> SetContent(SetText(Null, levels)))
                     @@ (LA :> sol(LA, backA)) @@ (LB :> sol(LB, backB))
                     @@ (LC :> sol(LC, backC))
            place == [p \in DOMAIN table |->
                        IF p \in Levels /\ status(p) = "absent" THEN "absent" ELSE "addon"]
        IN  Start(<<".">>, FALSE, place, table)

\* One level; every way its images and its song can be named, shared and placed.
InitMedia ==
    \E setShot \in {Null, Shot}, shot \in {Null, Shot}, grad \in {Null, Grad, Shot},
       song \in {Null, Tune, Shot},
       shotAt \in Places, tuneAt \in Places, gradAt \in {"absent", "addon"} :
        LET table == (setFile :> SetContent(SetText(setShot, <<LA>>)))
                     @@ (LA :> SolContent(shot, song, grad, Null, <<>>))
                     @@ (MapA :> MapContent(<<>>))
                     @@ (Shot :> DataContent) @@ (Tune :> DataContent)
                     @@ (Grad :> DataContent)
            place == (Shot :> shotAt) @@ (Tune :> tuneAt) @@ (Grad :> gradAt)
                     @@ [p \in DOMAIN table |-> "addon"]
        IN  Start(<<".">>, FALSE, place, table)

AddonDirs == {<<".">>, <<"addons">>, <<".", "/", "addons">>}

\* One level with a screenshot; every addon directory, with and without
\* --zip, every placing of the four files.
InitPackage ==
    \E dir \in AddonDirs, zip \in BOOLEAN, setAt \in {"addon", "both"},
       solAt \in {"addon", "base", "both"}, mapAt \in Places, shotAt \in Places :
        LET table == (setFile :> SetContent(SetText(Null, <<LA>>)))
                     @@ (LA :> SolContent(Shot, Null, Null, Null, <<>>))
                     @@ (MapA :> MapContent(<<>>))
                     @@ (Shot :> DataContent)
            place == (setFile :> setAt) @@ (LA :> solAt) @@ (MapA :> mapAt)
                     @@ (Shot :> shotAt)
        IN  Start(dir, zip, place, table)

\* One level and its materials; every set of files a material named "brick"
\* can be looked up as, in either directory or in both.
InitMaterials ==
    \E mtrls \in {<<Brick>>, <<<<"NULL">>, Brick, <<"default">>>>,
                  <<Brick, BrickPng>>, <<Brick, Brick>>,
                  <<<<"null">>, <<"Default">>, <<"NULL">>>>},
       present \in SUBSET BrickFiles, at \in {"addon", "base", "both"} :
        LET table == (setFile :> SetContent(SetText(Null, <<LA>>)))
                     @@ (LA :> SolContent(Null, Null, Null, Null, mtrls))
                     @@ (MapA :> MapContent(<<>>))
                     @@ [p \in BrickFiles |-> DataContent]
            place == [p \in BrickFiles |-> IF p \in present THEN at ELSE "absent"]
                     @@ [p \in DOMAIN table |-> "addon"]
        IN  Start(<<".">>, FALSE, place, table)

\* Two levels, their .map files and the models these name.
InitMaps ==
    \E second \in {LB, LC}, solAt \in {"addon", "base", "absent", "bad"},
       mapAt \in {"absent", "addon", "base"},
       models \in {<<>>, <<Ball>>, <<Ball, Ball>>, <<Ball, Cone>>},
       secondAt \in {"addon", "absent"}, mapBAt \in {"addon", "absent"},
       ballAt \in {"absent", "addon", "base"}, coneAt \in {"absent", "addon"} :
        /\ second = LC => mapBAt = "absent"
        /\ LET table == (setFile :> SetContent(SetText(Null, <<LA, second>>)))
                        @@ (LA :> IF solAt = "bad" THEN DataContent
                                  ELSE SolContent(Null, Null, Null, Null, <<>>))
                        @@ (second :> SolContent(Null, Null, Null, Null, <<>>))
                        @@ (MapA :> MapContent(models))
                        @@ (MapB :> MapContent(<<Ball>>))
                        @@ (Ball :> DataContent) @@ (Cone :> DataContent)
               place == (LA :> IF solAt = "bad" THEN "addon" ELSE solAt)
                        @@ (second :> secondAt)
                        @@ (MapA :> mapAt) @@ (MapB :> mapBAt)
                        @@ (Ball :> ballAt) @@ (Cone :> coneAt)
                        @@ (setFile :> "addon")
           IN  Start(<<".">>, FALSE, place, table)

Level1 == <<"level1", ".sol">>
Level2 == <<"level2", ".sol">>

\* The documented example: level1.sol and shot.jpg in the base directory,
\* level2.sol (with a song that is nowhere) in the addon directory.
InitExample ==
    LET table == (setFile :> SetContent(SetText(Shot, <<Level1, Level2>>)))
                 @@ (Level1 :> SolContent(Null, Null, Null, Null, <<<<"NULL">>>>))
                 @@ (Level2 :> SolContent(Null, Tune, Null, Null, <<>>))
                 @@ (Shot :> DataContent)
        place == (setFile :> "addon") @@ (Level1 :> "base") @@ (Level2 :> "addon")
                 @@ (Shot :> "base")
    IN  Start(<<".">>, FALSE, place, table)

\* Set files of every length up to eight lines, with level names in the lines
\* that are not level lines, empty and repeated level lines, either line end
\* or both, and a line end after the last line or none.
InitSetText ==
    \E shot \in {Null, Shot}, l4 \in {Null, LB}, l5 \in {Null, LA, LB},
       l6 \in {Null, LA, LB}, eol \in EolStyles, atEnd \in {<<>>, LF, CRLF} :
        LET full == <<LA, Shot, <<"v">>, shot, l4, l5, l6, LA>>
        IN  \E n \in 0..Len(full) :
                LET text == JoinLines(SubSeq(full, 1, n), eol, 1) \o atEnd
                    table == (setFile :> SetContent(text))
                             @@ (LA :> SolContent(Null, Null, Null, Null, <<>>))
                             @@ (LB :> SolContent(Null, Null, Null, Null, <<>>))
                    place == [p \in DOMAIN table |-> "addon"]
                IN  Start(<<".">>, FALSE, place, table)

Init ==
    \/ InitGraph
    \/ InitMedia
    \/ InitPackage
    \/ InitMaterials
    \/ InitMaps
    \/ InitExample
    \/ InitSetText

Spec == Init /\ [][Next]_vars

-----------------------------------------------------------------------------
(* What the two directories hold, stated without the resolver.               *)

InAddonDir(path) == Join(addonDir, path) \in DOMAIN fs
InBaseDir(path) == Join(baseDir, path) \in DOMAIN fs
InStore(path) == InAddonDir(path) \/ InBaseDir(path)

\* the content the overlay of the two directories gives a path
Overlay(path) ==
    IF InAddonDir(path) THEN fs[Join(addonDir, path)]
    ELSE IF InBaseDir(path) THEN fs[Join(baseDir, path)]
    ELSE NullContent

Range(seq) == {seq[k] : k \in 1..Len(seq)}

\* the level lines of the set file
Listed ==
    LET lines == SplitLines(Overlay(setFile))
    IN  {lines[k] : k \in 6..Len(lines)} \ {Null}

\* the background of a level that can be read and decoded
BackOf(level) ==
    LET c == Overlay(level)
    IN  IF c.kind = "sol" /\ c.dicts.back # Null THEN {c.dicts.back} ELSE {}

RECURSIVE ReachFrom(_)
ReachFrom(S) ==
    LET T == S \cup UNION {BackOf(l) : l \in S}
    IN  IF T = S THEN S ELSE ReachFrom(T)

Reachable == ReachFrom(Listed)

\* some level of the set is its own background, directly or not
Cyclic == \E l \in Reachable : l \in ReachFrom(BackOf(l))

\* getAssetsRecursivelyFromSetFile has returned
Walked == pc \in {"images", "audios", "sols", "materials", "objs",
                  "checked", "package", "exited"}

\* checkAssets has returned
Checked == pc \in {"checked", "package", "exited"}

NoDuplicates(list) ==
    \A j, k \in 1..Len(list) : list[j].path = list[k].path => j = k

IsMissing(type, path) ==
    \E k \in 1..Len(missingAssets) :
        missingAssets[k].type = type /\ missingAssets[k].path = path

IsFound(type, path) == Found(type, path) \in foundAssets

-----------------------------------------------------------------------------
(* Claims *)

\* C1: when background references form a cycle the closure computation still
\* returns: it never comes to a call the stack has no room for, it never dies
\* of one, and the level set it returns is exactly the levels of the cycle and
\* those leading to it.
C1_CycleTerminates ==
    Cyclic =>
        /\ ~(pc = "walk" /\ Pending /\ Len(stack) = StackLimit)
        /\ pc # "crashed"
        /\ Walked => MapKeys(assets.solAssets) = Reachable

\* C2: when the background references form no cycle, the closure is returned
\* and its level set is exactly the levels reachable from the set file's
\* level lines through the backgrounds of levels that read and decode, each
\* once.
C2_ClosureComplete ==
    ~Cyclic =>
        /\ pc # "crashed"
        /\ Walked => /\ MapKeys(assets.solAssets) = Reachable
                     /\ NoDuplicates(assets.solAssets)

\* a closure returned for a set whose level A has background B, B none
C2_Witness ==
    /\ Walked /\ ~Cyclic
    /\ LA \in Listed /\ LB \notin Listed
    /\ BackOf(LA) = {LB} /\ BackOf(LB) = {}
    /\ MapKeys(assets.solAssets) = {LA, LB}

\* C3: every call of getSystemFile returned the addon file and marked it
\* shadowed if the path is in both directories, returned the base file and
\* did not mark it if the path is in the base directory only, and returned the
\* addon file without marking it if the path is in the addon directory only.
C3_OverridePrecedence ==
    \A c \in resolved :
        LET addonPath == Join(addonDir, c.path)
            basePath == Join(baseDir, c.path)
        IN  /\ InAddonDir(c.path) /\ InBaseDir(c.path)
                => c.file = addonPath /\ addonPath \in foundBaseOverrides
            /\ ~InAddonDir(c.path) /\ InBaseDir(c.path)
                => c.file = basePath /\ addonPath \notin foundBaseOverrides
            /\ InAddonDir(c.path) /\ ~InBaseDir(c.path)
                => c.file = addonPath /\ addonPath \notin foundBaseOverrides

\* paths of all three sorts have been resolved
C3_Witness ==
    /\ \E c \in resolved : InAddonDir(c.path) /\ InBaseDir(c.path)
    /\ \E c \in resolved : ~InAddonDir(c.path) /\ InBaseDir(c.path)
    /\ \E c \in resolved : InAddonDir(c.path) /\ ~InBaseDir(c.path)

\* the files listed by a run that found nothing missing
Selection == Range(stdout)

\* C4: when a run that found nothing missing has ended, every resolved path
\* that is in the addon directory and not in the base directory is in the
\* packaging selection, and no resolved path that is in the base directory is,
\* neither as its addon file nor as its base file.
C4_PackagingMinimal ==
    (pc = "exited" /\ Len(missingAssets) = 0) =>
        \A c \in resolved :
            /\ InAddonDir(c.path) /\ ~InBaseDir(c.path)
                => Join(addonDir, c.path) \in Selection
            /\ InBaseDir(c.path)
                => /\ Join(addonDir, c.path) \notin Selection
                   /\ Join(baseDir, c.path) \notin Selection

\* such a run has ended with a file to include, a shadowed one and a base one
C4_Witness ==
    /\ pc = "exited" /\ Len(missingAssets) = 0
    /\ \E c \in resolved : InAddonDir(c.path) /\ ~InBaseDir(c.path)
    /\ \E c \in resolved : InAddonDir(c.path) /\ InBaseDir(c.path)
    /\ \E c \in resolved : ~InAddonDir(c.path) /\ InBaseDir(c.path)

MaterialFileIn(mtrl) ==
    InStore(<<"textures/">> \o mtrl) \/ InStore(mtrl)

MaterialImages(mtrl) ==
    {<<"textures/">> \o mtrl \o <<".png">>, <<"textures/">> \o mtrl \o <<".jpg">>,
     mtrl \o <<".png">>, mtrl \o <<".jpg">>}

\* C5: when checkAssets has returned, each material of the bundle has one
\* entry of kind material (found if its file resolves, missing if not) and one
\* entry of kind material-image (found under an image that resolves, missing
\* under the material's name if none does), whatever the other one is.
C5_DualMaterial ==
    Checked =>
        \A k \in 1..Len(assets.materialAssets) :
            LET mtrl == assets.materialAssets[k].path
                images == {i \in MaterialImages(mtrl) : InStore(i)}
            IN  /\ IF MaterialFileIn(mtrl)
                   THEN IsFound("material", mtrl)
                   ELSE IsMissing("material", mtrl)
                /\ IF images # {}
                   THEN \E i \in images : IsFound("material-image", i)
                   ELSE IsMissing("material-image", mtrl)

\* C6: when checkAssets has returned, each level of the bundle has an entry
\* of kind sol: missing if the level is in neither directory or does not
\* decode, found otherwise, whatever became of its .map file.
C6_LevelClassified ==
    Checked =>
        \A k \in 1..Len(assets.solAssets) :
            LET level == assets.solAssets[k].path
            IN  IF Overlay(level).kind = "sol"
                THEN IsFound("sol", level) /\ ~IsMissing("sol", level)
                ELSE IsMissing("sol", level) /\ ~IsFound("sol", level)

Classified(type, path) ==
    IF InStore(path)
    THEN IsFound(type, path) /\ ~IsMissing(type, path)
    ELSE IsMissing(type, path) /\ ~IsFound(type, path)

\* C7: when checkAssets has returned, each image and each audio asset of the
\* bundle has one entry of its kind and path, found if the path is in a
\* directory and missing if not, also when an image and an audio asset have
\* the same path.
C7_MediaClassified ==
    Checked =>
        /\ \A k \in 1..Len(assets.imageAssets) :
               Classified("image", assets.imageAssets[k].path)
        /\ \A k \in 1..Len(assets.audioAssets) :
               Classified("audio", assets.audioAssets[k].path)

\* C8: no kind and path is both among the found and among the missing.
C8_FoundMissingDisjoint ==
    \A k \in 1..Len(missingAssets) :
        ~IsFound(missingAssets[k].type, missingAssets[k].path)

\* C9: a run that has ended has failed exactly if checkAssets returned
\* something missing; if so it listed no file and wrote no archive entry, and
\* if not it listed its packaging selection.
C9_FailureIffMissing ==
    pc \in {"exited", "crashed"} =>
        /\ exitCode # 0 <=> Len(missingAssets) > 0
        /\ Len(missingAssets) > 0 =>
               /\ \A k \in 1..Len(stdout) : stdout[k][1] = "not-found:"
               /\ archive.entries = <<>>
        /\ Len(missingAssets) = 0 =>
               \A k \in 1..Len(foundAddonFilenames) :
                   foundAddonFilenames[k].file \notin foundBaseOverrides
                       => foundAddonFilenames[k].file \in Selection

\* C10: every entry handed to the archive writer has the addon file of a
\* selected path as its source and that path as its name.
C10_ArchiveEntries ==
    \A k \in 1..Len(archive.entries) :
        \E j \in 1..Len(foundAddonFilenames) :
            /\ foundAddonFilenames[j].file \notin foundBaseOverrides
            /\ archive.entries[k].source = Join(addonDir, foundAddonFilenames[j].path)
            /\ archive.entries[k].name = foundAddonFilenames[j].path

EndsInSol(path) == Len(path) > 0 /\ path[Len(path)] = ".sol"

\* the path with its last token replaced by ".map"
WithMapSuffix(path) == [k \in 1..Len(path) |-> IF k = Len(path) THEN ".map" ELSE path[k]]

HasEntry(list, type, path) ==
    \E k \in 1..Len(list) : list[k].type = type /\ list[k].path = path

\* C11: when checkAssets has returned, each level of the bundle whose path
\* does not end in ".sol" has a missing entry of kind map under its own path,
\* the level being in a directory or not.
C11_NoSuffixMapMissing ==
    Checked =>
        \A k \in 1..Len(assets.solAssets) :
            LET level == assets.solAssets[k].path
            IN  ~EndsInSol(level) => IsMissing("map", level) /\ ~IsFound("map", level)

\* C12: the round of checkAssets for a level whose path ends in ".sol" looks
\* for the path with ".sol" replaced by ".map": if that file is in neither
\* directory it records a missing entry of kind map under the level's path and
\* adds no model, otherwise it records a found entry of kind map under the
\* .map path.
C12_CompanionDerivation ==
    [][(pc = "sols" /\ EndsInSol(assets.solAssets[idx].path)) =>
        LET level == assets.solAssets[idx].path
            mapPath == WithMapSuffix(level)
        IN  IF InStore(mapPath)
            THEN /\ Found("map", mapPath) \in foundAssets'
                 /\ ~HasEntry(missingAssets', "map", level)
            ELSE /\ HasEntry(missingAssets', "map", level)
                 /\ Found("map", mapPath) \notin foundAssets'
                 /\ Found("map", level) \notin foundAssets'
                 /\ objAssets' = objAssets]_vars

\* both have happened: a.map was missing, b.map was found and named a model
C12_Witness ==
    /\ IsMissing("map", LA) /\ ~InStore(MapA)
    /\ IsFound("map", MapB) /\ MapHas(objAssets, Ball)

\* the run is the documented example
IsExample == Listed = {Level1, Level2}

\* kind and path of the missing entries
MissingKinds ==
    {[type |-> missingAssets[k].type, path |-> missingAssets[k].path] :
        k \in 1..Len(missingAssets)}

ExampleFound ==
    /\ IsFound("image", Shot) /\ IsFound("sol", Level1) /\ IsFound("sol", Level2)
    /\ \A k \in 1..Len(missingAssets) :
           missingAssets[k].type = "audio" => missingAssets[k].parent = Level2

\* C13 as stated: in the documented example check() returns as missing
\* exactly the song tune.ogg of level2.sol and the .map file of level2.sol,
\* and as found at least shot.jpg and the two levels.
C13_ExampleAsStated ==
    (IsExample /\ Checked) =>
        /\ MissingKinds = {Found("audio", Tune), Found("map", Level2)}
        /\ ExampleFound

\* C13: in the documented example check() returns as missing exactly the
\* song tune.ogg of level2.sol and the .map files of level2.sol and of
\* level1.sol, neither of which is in a directory, and as found at least
\* shot.jpg and the two levels.
C13_Example ==
    (IsExample /\ Checked) =>
        /\ MissingKinds = {Found("audio", Tune), Found("map", Level2),
                           Found("map", Level1)}
        /\ ExampleFound

\* check() has returned in the documented example
C13_Witness == IsExample /\ Checked /\ IsMissing("audio", Tune)

\* a level that is in neither directory or does not decode
BrokenLevel(level) == ~Decodes(Overlay(level))

\* the level the activation at depth d of the stack was called for
FrameLevel(d) == stack[d - 1].mainAssets.solAssets[stack[d - 1].k].path

\* the levels of the set that read and decode
Decoded == {l \in Reachable : ~BrokenLevel(l)}

\* the screenshot line of the set file
SetShot ==
    LET lines == SplitLines(Overlay(setFile))
    IN  IF Len(lines) >= 4 /\ lines[4] # Null THEN {lines[4]} ELSE {}

ExpectedImages ==
    (SetShot \cup {Overlay(l).dicts.shot : l \in Decoded}
             \cup {Overlay(l).dicts.grad : l \in Decoded}) \ {Null}

ExpectedAudios == {Overlay(l).dicts.song : l \in Decoded} \ {Null}

MtrlNames(level) ==
    LET mtrls == Overlay(level).mtrls IN {mtrls[k].f : k \in 1..Len(mtrls)}

ExpectedMaterials ==
    UNION {MtrlNames(l) : l \in Decoded} \ {<<"NULL">>, <<"default">>}

\* C14: the activation called for a level that is in neither directory or
\* does not decode was given four empty collections; the run dies of nothing
\* but an exhausted stack; and the closure returned contains every such level
\* that is reachable, and exactly the levels, images, songs and materials
\* that the set file and the levels that do decode lead to.
C14_BrokenLevelEmpty ==
    /\ \A d \in 2..Len(stack) :
           BrokenLevel(FrameLevel(d)) => stack[d].mainAssets = EmptyBundle
    /\ pc = "crashed" => Len(stack) = StackLimit
    /\ Walked =>
           /\ \A l \in Reachable : BrokenLevel(l) => l \in MapKeys(assets.solAssets)
           /\ MapKeys(assets.solAssets) = Reachable
           /\ MapKeys(assets.imageAssets) = ExpectedImages
           /\ MapKeys(assets.audioAssets) = ExpectedAudios
           /\ MapKeys(assets.materialAssets) = ExpectedMaterials

\* a closure returned for a set whose level A decodes and has the background
\* B, which does not
C14_Witness ==
    /\ Walked
    /\ LA \in Listed /\ LB \notin Listed
    /\ BackOf(LA) = {LB} /\ InStore(LB) /\ BrokenLevel(LB)
    /\ LB \in MapKeys(assets.solAssets)
    /\ <<"a", ".jpg">> \in MapKeys(assets.imageAssets)

Sentinels == {<<"NULL">>, <<"default">>}

\* C15: the material collection given to the activation called for a level
\* that decodes has no reference named NULL or default, has exactly one
\* reference of the name of each other entry of the level's material list
\* (names that differ from these two in case only included), each with the
\* level as its parent, and has no other reference.
C15_SentinelMaterials ==
    \A d \in 2..Len(stack) :
        LET level == FrameLevel(d)
            refs == stack[d].mainAssets.materialAssets
        IN  ~BrokenLevel(level) =>
                /\ \A m \in MtrlNames(level) :
                       Cardinality({k \in 1..Len(refs) : refs[k].path = m})
                           = IF m \in Sentinels THEN 0 ELSE 1
                /\ \A k \in 1..Len(refs) :
                       refs[k].path \in MtrlNames(level) /\ refs[k].parent = level

\* the activation for a level whose materials are null, Default and NULL
C15_Witness ==
    \E d \in 2..Len(stack) :
        /\ ~BrokenLevel(FrameLevel(d))
        /\ MtrlNames(FrameLevel(d)) = {<<"null">>, <<"Default">>, <<"NULL">>}
        /\ MapKeys(stack[d].mainAssets.materialAssets) = {<<"null">>, <<"Default">>}

\* the text of the set file
ManifestText == Overlay(setFile).text

\* where the lines of a text end
Breaks(text) == {i \in 1..Len(text) : text[i] = "\n"}

LineCount(text) == Cardinality(Breaks(text)) + 1

\* the position of the j-th line end of a text, its two ends being the
\* line ends number 0 and LineCount
BreakAt(text, j) ==
    IF j = 0 THEN 0
    ELSE IF j = LineCount(text) THEN Len(text) + 1
    ELSE CHOOSE i \in Breaks(text) :
             Cardinality({b \in Breaks(text) : b < i}) = j - 1

\* line j of a text, counted from 0, without its line end
LineAt(text, j) ==
    LET first == BreakAt(text, j) + 1
        next == BreakAt(text, j + 1)
        last == IF next <= Len(text) /\ next - 1 >= first /\ text[next - 1] = "\r"
                THEN next - 2 ELSE next - 1
    IN  SubSeq(text, first, last)

\* C16: the bundle getAssetsFromSetFile returned has the set file's line 3 as
\* its one image if the text has that line and it is not empty, and no image
\* otherwise; has one level for each distinct non-empty line from line 5 on
\* and no other; has no song and no material; and names the set file as the
\* parent of all it has.
C16_ManifestParsing ==
    stack # <<>> =>
        LET bundle == stack[1].mainAssets
            text == ManifestText
            n == LineCount(text)
        IN  /\ MapKeys(bundle.imageAssets)
                   = IF n > 3 /\ LineAt(text, 3) # <<>> THEN {LineAt(text, 3)} ELSE {}
            /\ MapKeys(bundle.solAssets) = {LineAt(text, j) : j \in 5..(n - 1)} \ {<<>>}
            /\ NoDuplicates(bundle.imageAssets) /\ NoDuplicates(bundle.solAssets)
            /\ bundle.audioAssets = <<>> /\ bundle.materialAssets = <<>>
            /\ \A k \in 1..Len(bundle.imageAssets) : bundle.imageAssets[k].parent = setFile
            /\ \A k \in 1..Len(bundle.solAssets) : bundle.solAssets[k].parent = setFile

\* the bundle of a text of eight lines that end either way, line 4 naming a
\* level, line 5 empty, lines 6 and 7 naming one level
C16_Witness ==
    /\ stack # <<>>
    /\ LineCount(ManifestText) = 8
    /\ \E i, j \in Breaks(ManifestText) :
           i > 1 /\ j > 1 /\ ManifestText[i - 1] = "\r" /\ ManifestText[j - 1] # "\r"
    /\ LineAt(ManifestText, 3) = Shot
    /\ LineAt(ManifestText, 4) = LB
    /\ LineAt(ManifestText, 5) = <<>>
    /\ LineAt(ManifestText, 6) = LA /\ LineAt(ManifestText, 7) = LA
    /\ MapKeys(stack[1].mainAssets.solAssets) = {LA}
    /\ MapKeys(stack[1].mainAssets.imageAssets) = {Shot}

\* the first of the candidates that is in a directory, or null
FirstInStore(candidates) ==
    IF \E k \in 1..Len(candidates) : InStore(candidates[k])
    THEN candidates[CHOOSE k \in 1..Len(candidates) :
                        /\ InStore(candidates[k])
                        /\ \A j \in 1..(k - 1) : ~InStore(candidates[j])]
    ELSE Null

MaterialCandidates(mtrl) == << <<"textures/">> \o mtrl, mtrl >>

MaterialImageCandidates(mtrl) ==
    << <<"textures/">> \o mtrl \o <<".png">>, <<"textures/">> \o mtrl \o <<".jpg">>,
       mtrl \o <<".png">>, mtrl \o <<".jpg">> >>

\* C17: in the round of checkAssets for a material, findMaterialPath returns
\* the first of textures/name and name that is in a directory, and
\* findMaterialImagePath the first of textures/name.png, textures/name.jpg,
\* name.png and name.jpg that is, each null if none of its candidates is;
\* either returns the same before and after the other has run; and the round
\* adds to the found set the material exactly if the first is not null, and
\* the image the second returned if it is not null.
C17_MaterialLookup ==
    [][pc = "materials" =>
        LET mtrl == assets.materialAssets[idx].path
            file == findMaterialPath(Resolver, mtrl)
            image == findMaterialImagePath(file.R, mtrl)
        IN  /\ file.path = FirstInStore(MaterialCandidates(mtrl))
            /\ image.path = FirstInStore(MaterialImageCandidates(mtrl))
            /\ findMaterialImagePath(Resolver, mtrl).path = image.path
            /\ findMaterialPath(image.R, mtrl).path = file.path
            /\ foundAssets' = foundAssets
                   \cup (IF file.path = Null THEN {} ELSE {Found("material", mtrl)})
                   \cup (IF image.path = Null THEN {}
                         ELSE {Found("material-image",
                                     FirstInStore(MaterialImageCandidates(mtrl)))})
    ]_vars

\* the materials brick and textures/brick.png have been looked up: brick is
\* found as brick, there being no textures/brick; its image as
\* textures/brick.jpg, there being a brick.png and no textures/brick.png; and
\* the other has no image
C17_Witness ==
    /\ Checked
    /\ IsFound("material", Brick)
    /\ ~InStore(<<"textures/", "brick">>) /\ InStore(Brick)
    /\ IsFound("material-image", <<"textures/", "brick", ".jpg">>)
    /\ InStore(<<"brick", ".png">>) /\ ~InStore(BrickPng)
    /\ IsMissing("material-image", BrickPng)

\* the path of the .map file of a level
CompanionOf(level) == IF EndsInSol(level) THEN WithMapSuffix(level) ELSE level

\* the models named by a file, if it is the text of a .map file
ModelsNamedIn(path) ==
    LET c == Overlay(path) IN IF c.kind = "map" THEN Range(c.models) ELSE {}

\* the models named by the .map files, in either directory, of the levels of
\* the closure
ExpectedModels ==
    UNION {ModelsNamedIn(CompanionOf(l)) :
               l \in {q \in MapKeys(assets.solAssets) : InStore(CompanionOf(q))}}

\* existence checks made so far of a path: one call of getSystemFile asks
\* once whether its addon file exists
TimesChecked(path) ==
    IF Join(addonDir, path) \in DOMAIN probes THEN probes[Join(addonDir, path)] ELSE 0

HasObjEntry(path) == IsFound("obj", path) \/ IsMissing("obj", path)

\* C18: until the loop over the levels has ended no model has been checked
\* for existence or has an entry of kind obj; in the loop over the models
\* those not yet come to have neither; and when checkAssets has returned the
\* models are exactly those named by the .map files found for the levels of
\* the closure, each once, each checked for existence once, each with one
\* entry of kind obj, found if it is in a directory and missing if not.
C18_ModelsCheckedOnce ==
    /\ pc \in {"start", "walk", "crashed", "images", "audios", "sols", "materials"} =>
           /\ \A m \in {Ball, Cone} : TimesChecked(m) = 0
           /\ \A f \in foundAssets : f.type # "obj"
           /\ \A k \in 1..Len(missingAssets) : missingAssets[k].type # "obj"
    /\ pc = "objs" =>
           /\ MapKeys(objAssets) = ExpectedModels
           /\ \A k \in 1..Len(objAssets) :
                  IF k < idx
                  THEN TimesChecked(objAssets[k].path) = 1 /\ HasObjEntry(objAssets[k].path)
                  ELSE TimesChecked(objAssets[k].path) = 0 /\ ~HasObjEntry(objAssets[k].path)
    /\ Checked =>
           /\ MapKeys(objAssets) = ExpectedModels
           /\ NoDuplicates(objAssets)
           /\ \A m \in ExpectedModels :
                  /\ TimesChecked(m) = 1
                  /\ Classified("obj", m)
                  /\ Cardinality({k \in 1..Len(missingAssets) :
                                      missingAssets[k].path = m}) <= 1
           /\ \A f \in foundAssets : f.type = "obj" => f.path \in ExpectedModels
           /\ \A k \in 1..Len(missingAssets) :
                  missingAssets[k].type = "obj" => missingAssets[k].path \in ExpectedModels

\* checkAssets has returned for two levels whose .map files are both found,
\* one naming the ball and the cone and the other the ball again: the ball is
\* found and the cone missing
C18_Witness ==
    /\ Checked
    /\ IsFound("map", MapA) /\ IsFound("map", MapB)
    /\ Overlay(MapA).models = <<Ball, Cone>> /\ Overlay(MapB).models = <<Ball>>
    /\ Len(objAssets) = 2
    /\ IsFound("obj", Ball) /\ IsMissing("obj", Cone)

\* what a Map of the resolver holds for a path, and where
BookOf(list, path) ==
    {<<k, list[k].file>> : k \in {j \in 1..Len(list) : list[j].path = path}}

\* C19: all calls of getSystemFile for one path have returned the same file
\* or all null, and no step changes, for a path resolved before it, whether
\* its addon file is marked as shadowing a base file or what
\* foundAddonFilenames and foundBaseFilenames hold for it.
C19_ResolveIdempotent ==
    [][/\ \A c1, c2 \in resolved' : c1.path = c2.path => c1.file = c2.file
       /\ \A c \in resolved :
              /\ Join(addonDir, c.path) \in foundBaseOverrides'
                     <=> Join(addonDir, c.path) \in foundBaseOverrides
              /\ BookOf(foundAddonFilenames', c.path) = BookOf(foundAddonFilenames, c.path)
              /\ BookOf(foundBaseFilenames', c.path) = BookOf(foundBaseFilenames, c.path)
    ]_vars

\* a level that is in both directories has been resolved twice, its
\* screenshot in between, and so has a .map file that is in neither
C19_Witness ==
    /\ TimesChecked(LA) >= 2
    /\ InAddonDir(LA) /\ InBaseDir(LA)
    /\ Join(addonDir, LA) \in foundBaseOverrides
    /\ TimesChecked(Shot) >= 1
    /\ TimesChecked(MapA) >= 1 /\ ~InStore(MapA)

\* C20: no level has been passed to getAssetsFromSolFile more than once.
C20_ExtractedOnce ==
    \A level \in DOMAIN extracted : extracted[level] <= 1

\* the four collections of a bundle
Collections(bundle) ==
    <<bundle.imageAssets, bundle.audioAssets, bundle.solAssets, bundle.materialAssets>>

\* every entry of the list before is in the list after, with the parent it had
KeepsParents(before, after) ==
    \A k \in 1..Len(before) :
        /\ MapHas(after, before[k].path)
        /\ MapGet(after, before[k].path).parent = before[k].parent

\* C21: when an activation of getAssetsRecursively returns to its caller, or
\* the first returns the closure, every entry the accumulator had before the
\* union is in it after the union with the parent it had.
C21_UnionKeepsFirstParent ==
    [][(pc = "walk" /\ Len(stack) >= 2 /\ Len(stack') = Len(stack) - 1) =>
          \A c \in 1..4 :
              KeepsParents(Collections(stack[Len(stack) - 1].combined)[c],
                           Collections(stack'[Len(stack')].combined)[c])
    ]_vars

\* the paths resolved so far
ResolvedPaths == {c.path : c \in resolved}

\* C22: for each path resolved so far, fs.existsSync has been asked at most
\* once for its addon file and at most once for its base file.
C22_TwoProbesPerPath ==
    \A path \in ResolvedPaths :
        \A file \in {Join(addonDir, path), Join(baseDir, path)} :
            file \in DOMAIN probes => probes[file] <= 1

\* the path is in the base directory or its addon file has been listed
Provided(path) == InBaseDir(path) \/ Join(addonDir, path) \in Selection

\* the path a found entry stands for: the file of a material, found under
\* the material's name, is the first of its candidates
PathOfFound(f) ==
    IF f.type = "material" THEN FirstInStore(MaterialCandidates(f.path)) ELSE f.path

\* C23: when a run that found nothing missing has ended, the set file, every
\* path getSystemFile returned a file for and the path of every found entry
\* is in the base directory or has its addon file in the packaging selection.
C23_SelectionSufficient ==
    (pc = "exited" /\ Len(missingAssets) = 0) =>
        /\ Provided(setFile)
        /\ \A c \in resolved : c.file # Null => Provided(c.path)
        /\ \A f \in foundAssets :
               /\ PathOfFound(f) \in {c.path : c \in {r \in resolved : r.file # Null}}
               /\ Provided(PathOfFound(f))

\* such a run has ended, its level in both directories, the level's
\* screenshot in the addon directory only and its .map file in the base
\* directory only
C23_Witness ==
    /\ pc = "exited" /\ Len(missingAssets) = 0 /\ exitCode = 0
    /\ IsFound("sol", LA) /\ InAddonDir(LA) /\ InBaseDir(LA)
    /\ IsFound("image", Shot) /\ InAddonDir(Shot) /\ ~InBaseDir(Shot)
    /\ IsFound("map", MapA) /\ ~InAddonDir(MapA) /\ InBaseDir(MapA)
    /\ Join(addonDir, Shot) \in Selection

\* the files a Map of the resolver holds
FilesOf(list) == {list[k].file : k \in 1..Len(list)}

\* C24: every file marked as shadowing a base file is a file held by
\* foundAddonFilenames; no path is a key of both foundAddonFilenames and
\* foundBaseFilenames; and a path that is in neither directory is a key of
\* neither, and its addon file is not marked, resolved though it may have been.
C24_BookkeepingConsistent ==
    /\ foundBaseOverrides \subseteq FilesOf(foundAddonFilenames)
    /\ MapKeys(foundAddonFilenames) \cap MapKeys(foundBaseFilenames) = {}
    /\ \A path \in ResolvedPaths \cup MapKeys(foundAddonFilenames)
                      \cup MapKeys(foundBaseFilenames) :
           ~InStore(path) =>
               /\ path \notin MapKeys(foundAddonFilenames)
               /\ path \notin MapKeys(foundBaseFilenames)
               /\ Join(addonDir, path) \notin foundBaseOverrides
               /\ Join(baseDir, path) \notin foundBaseOverrides

\* resolved so far: a level that is in both directories, its screenshot in the
\* base directory only, and its .map file, in neither
C24_Witness ==
    /\ Join(addonDir, LA) \in foundBaseOverrides
    /\ MapHas(foundBaseFilenames, Shot) /\ ~InAddonDir(Shot)
    /\ MapA \in ResolvedPaths /\ ~InStore(MapA)

\* the parents of the entries of the closure
ClosureParents ==
    UNION {{Collections(assets)[c][k].parent : k \in 1..Len(Collections(assets)[c])} :
               c \in 1..4}

\* C25: when checkAssets has returned, a level of the closure has a found
\* entry of kind sol exactly if getAssetsFromSolFile decoded it during the
\* walk, and every level that is the parent of an entry of the closure has
\* a found entry of kind sol and no missing entry of kind sol.
C25_WalkerAuditorAgree ==
    Checked =>
        /\ \A level \in MapKeys(assets.solAssets) :
               IsFound("sol", level) <=> level \in decoded
        /\ \A parent \in ClosureParents \ {setFile} :
               /\ parent \in decoded
               /\ IsFound("sol", parent)
               /\ ~IsMissing("sol", parent)

\* checkAssets has returned for a closure of level A, decoded and the parent
\* of its screenshot and of its background B, and of B, whose file is there
\* and does not decode
C25_Witness ==
    /\ Checked
    /\ LA \in decoded /\ IsFound("sol", LA)
    /\ MapHas(assets.imageAssets, <<"a", ".jpg">>)
    /\ MapGet(assets.imageAssets, <<"a", ".jpg">>).parent = LA
    /\ MapHas(assets.solAssets, LB) /\ MapGet(assets.solAssets, LB).parent = LA
    /\ InStore(LB) /\ LB \notin decoded /\ ~IsFound("sol", LB)


=============================================================================
